---- MODULE Spec2Model ----
(***************************************************************************)
(* Request/response model of the blog views of blogicum/blog/views.py.     *)
(*                                                                         *)
(* The store is the relational data the views read and write: the User,    *)
(* Category, Post and Comment tables.  Every action is one HTTP request    *)
(* handled by one class-based view, from dispatch to the response; the     *)
(* request that was handled and the response that was produced are kept in *)
(* the variables request and response, so that properties can relate them  *)
(* to the store before and after the request.                              *)
(*                                                                         *)
(* Post carries the fields the views read (author, is_published, pub_date, *)
(* category); title, text, image and location are never read by views.py   *)
(* and are left out.  Ordering ('-pub_date') and pagination (paginate_by)  *)
(* arrange the rows of a listing without changing which rows it holds; a   *)
(* listing is modelled as the set of its rows.                             *)
(***************************************************************************)
EXTENDS Integers, FiniteSets, Sequences, TLC

VARIABLES users, posts, comments, nextPostPk, nextCommentPk, now,
          request, response

vars == <<users, posts, comments, nextPostPk, nextCommentPk, now,
          request, response>>

store == <<users, posts, comments>>

(***************************************************************************)
(* Bounds of the model.                                                    *)
(***************************************************************************)
MaxPosts == 2

MaxComments == 2

MaxTime == 2

(***************************************************************************)
(* Fixture data: the rows of the tables no view writes.                    *)
(***************************************************************************)
AnonymousUser == 0

InitialUsers ==
    <<[username |-> "ann", first_name |-> "", last_name |-> "", email |-> ""],
      [username |-> "bob", first_name |-> "", last_name |-> "", email |-> ""]>>

Users == DOMAIN InitialUsers

Requesters == Users \cup {AnonymousUser}

Usernames == {"ann", "bob", "cat"}

Names == {"", "N"}

Emails == {"", "e@x"}

Category ==
    <<[slug |-> "open", is_published |-> TRUE],
      [slug |-> "closed", is_published |-> FALSE]>>

CategoryPks == DOMAIN Category

Slugs == {"open", "closed", "absent"}

Dates == 1..MaxTime

PostPks == 1..MaxPosts

CommentPks == 1..MaxComments

\* URL arguments: every primary key that can exist and one that never does.
PostArgs == 1..(MaxPosts + 1)

CommentArgs == 1..(MaxComments + 1)

Texts == {"a", "b"}

Methods == {"GET", "POST"}

(***************************************************************************)
(* Requests and responses.                                                 *)
(***************************************************************************)
Request(view, method, user, pk, comment_id, name) ==
    [view |-> view, method |-> method, user |-> user, pk |-> pk,
     comment_id |-> comment_id, name |-> name]

NoUrl == [name |-> "", pk |-> 0, username |-> ""]

Url(name, pk, username) == [name |-> name, pk |-> pk, username |-> username]

LoginUrl == Url("login", 0, "")

Response(status, location, object, object_list) ==
    [status |-> status, location |-> location, object |-> object,
     object_list |-> object_list]

\* 200 with a rendered template
Rendered(object, object_list) == Response("ok", NoUrl, object, object_list)

\* 302
Redirect(url) == Response("redirect", url, 0, {})

\* Http404
NotFound == Response("not_found", NoUrl, 0, {})

\* PermissionDenied, 403
Forbidden == Response("forbidden", NoUrl, 0, {})

\* no request handled yet
NoRequest == Request("", "", AnonymousUser, 0, 0, "")

NoResponse == Response("", NoUrl, 0, {})

ListedPks(resp) == {row.pk : row \in resp.object_list}

(***************************************************************************)
(* Model layer.                                                            *)
(***************************************************************************)
is_authenticated(user) == user # AnonymousUser

\* Post.objects.create / form.save() of a new row: the next primary key
Insert(table, pk, row) ==
    [k \in DOMAIN table \cup {pk} |-> IF k = pk THEN row ELSE table[k]]

\* form.save() of an existing row
Update(table, pk, row) == [table EXCEPT ![pk] = row]

Delete(table, keys) == [k \in DOMAIN table \ keys |-> table[k]]

\* comments of a post (related_name='comments')
CommentsOf(p) == {c \in DOMAIN comments : comments[c].post = p}

\* Post.delete(): the comments of the post go with it
CascadeDelete(p) == Delete(comments, CommentsOf(p))

\* .annotate(comment_count=Count('comments'))
annotate(queryset) ==
    {[pk |-> p, comment_count |-> Cardinality(CommentsOf(p))] : p \in queryset}

\* get_object_or_404(User, username=...)
UserByUsername(name) == {u \in Users : users[u].username = name}

\* get_object_or_404(Category, slug=..., is_published=True)
PublishedCategoryBySlug(slug) ==
    {c \in CategoryPks : Category[c].slug = slug /\ Category[c].is_published}

\* UserPassesTestMixin.dispatch when test_func() is False:
\* AccessMixin.handle_no_permission
handle_no_permission(user) ==
    IF is_authenticated(user) THEN Forbidden ELSE Redirect(LoginUrl)

TypeOK ==
    /\ users \in [Users -> [username : Usernames, first_name : Names,
                            last_name : Names, email : Emails]]
    /\ DOMAIN posts \subseteq PostPks
    /\ \A p \in DOMAIN posts :
         posts[p] \in [author : Users, is_published : BOOLEAN,
                       pub_date : Dates, category : CategoryPks]
    /\ DOMAIN comments \subseteq CommentPks
    /\ \A c \in DOMAIN comments :
         comments[c] \in [post : PostPks, author : Users, text : Texts]
    /\ nextPostPk \in 1..(MaxPosts + 1)
    /\ nextCommentPk \in 1..(MaxComments + 1)
    /\ now \in Dates

Init ==
    /\ users = InitialUsers
    /\ posts = <<>>
    /\ comments = <<>>
    /\ nextPostPk = 1
    /\ nextCommentPk = 1
    /\ now = 1
    /\ request = NoRequest
    /\ response = NoResponse


(***************************************************************************)
(* Querysets of the listing views.                                         *)
(***************************************************************************)
\* PostsListView.get_queryset without pub_date__lte=timezone.now()
PostsListView_get_queryset_NoDate ==
    {p \in DOMAIN posts :
        /\ posts[p].is_published
        /\ Category[posts[p].category].is_published}

\* PostsListView.get_queryset
PostsListView_get_queryset ==
    {p \in DOMAIN posts :
        /\ posts[p].is_published
        /\ posts[p].pub_date <= now
        /\ Category[posts[p].category].is_published}

\* PostsInCategoryListView.get_queryset without is_published=True
PostsInCategoryListView_get_queryset_NoFlag(category) ==
    {p \in DOMAIN posts :
        /\ posts[p].pub_date <= now
        /\ posts[p].category = category}

\* PostsInCategoryListView.get_queryset, once self.category is resolved
PostsInCategoryListView_get_queryset(category) ==
    {p \in DOMAIN posts :
        /\ posts[p].is_published
        /\ posts[p].pub_date <= now
        /\ posts[p].category = category}

\* ProfileListView.get_queryset filtering for the owner as for a visitor
ProfileListView_get_queryset_NoOwner(user, profile) ==
    {p \in DOMAIN posts :
        /\ posts[p].author = profile
        /\ posts[p].is_published
        /\ posts[p].pub_date <= now
        /\ Category[posts[p].category].is_published}

\* ProfileListView.get_queryset, once self.profile is resolved
ProfileListView_get_queryset(user, profile) ==
    LET queryset == {p \in DOMAIN posts : posts[p].author = profile}
    IN  IF user # profile
        THEN {p \in queryset :
                /\ posts[p].is_published
                /\ posts[p].pub_date <= now
                /\ Category[posts[p].category].is_published}
        ELSE queryset

\* OnlyAuthorMixin.test_func letting every logged-in user pass
OnlyAuthorMixin_test_func_AnyUser(author, user) == is_authenticated(user)

\* OnlyAuthorMixin.test_func, once get_object() has found the object
OnlyAuthorMixin_test_func(author, user) == author = user

\* PostDetailView.get_object, once super().get_object() has found the post
PostDetailView_get_object(user, pk) ==
    IF ~(posts[pk].is_published \/ posts[pk].author = user)
    THEN NotFound
    ELSE Rendered(pk, {})

(***************************************************************************)
(* Read-only views.                                                        *)
(***************************************************************************)
\* GET /
Index(user) ==
    /\ request' = Request("index", "GET", user, 0, 0, "")
    /\ response' = Rendered(0, annotate(PostsListView_get_queryset))
    /\ UNCHANGED <<users, posts, comments, nextPostPk, nextCommentPk, now>>

\* GET /category/<slug>/
CategoryPosts(user, slug) ==
    /\ request' = Request("category_posts", "GET", user, 0, 0, slug)
    /\ response' =
         LET found == PublishedCategoryBySlug(slug)
         IN  IF found = {}
             THEN NotFound
             ELSE LET category == CHOOSE c \in found : TRUE
                  IN  Rendered(category,
                        annotate(PostsInCategoryListView_get_queryset(category)))
    /\ UNCHANGED <<users, posts, comments, nextPostPk, nextCommentPk, now>>

\* GET /profile/<username>/
Profile(user, username) ==
    /\ request' = Request("profile", "GET", user, 0, 0, username)
    /\ response' =
         LET found == UserByUsername(username)
         IN  IF found = {}
             THEN NotFound
             ELSE LET profile == CHOOSE u \in found : TRUE
                  IN  Rendered(profile,
                        annotate(ProfileListView_get_queryset(user, profile)))
    /\ UNCHANGED <<users, posts, comments, nextPostPk, nextCommentPk, now>>

\* GET /posts/<pk>/
PostDetail(user, pk) ==
    /\ request' = Request("post_detail", "GET", user, pk, 0, "")
    /\ response' =
         IF pk \notin DOMAIN posts
         THEN NotFound
         ELSE PostDetailView_get_object(user, pk)
    /\ UNCHANGED <<users, posts, comments, nextPostPk, nextCommentPk, now>>

(***************************************************************************)
(* Post views.                                                             *)
(***************************************************************************)
PostForms ==
    [is_published : BOOLEAN, pub_date : Dates, category : CategoryPks]

\* PostCreateView.form_valid: the new row
NewPost(user, form) ==
    [author |-> user, is_published |-> form.is_published,
     pub_date |-> form.pub_date, category |-> form.category]

\* GET|POST /posts/create/
PostCreate(user, method, valid, form) ==
    /\ request' = Request("post_create", method, user, 0, 0, "")
    /\ IF ~is_authenticated(user)
       THEN /\ response' = Redirect(LoginUrl)
            /\ UNCHANGED <<posts, nextPostPk>>
       ELSE IF method = "GET" \/ ~valid
       THEN /\ response' = Rendered(0, {})
            /\ UNCHANGED <<posts, nextPostPk>>
       ELSE /\ nextPostPk <= MaxPosts
            /\ posts' = Insert(posts, nextPostPk, NewPost(user, form))
            /\ nextPostPk' = nextPostPk + 1
            /\ response' =
                 Redirect(Url("blog:profile", 0, users[user].username))
    /\ UNCHANGED <<users, comments, nextCommentPk, now>>

\* GET|POST /posts/<pk>/edit/
PostUpdate(user, method, pk, valid, form) ==
    /\ request' = Request("post_edit", method, user, pk, 0, "")
    /\ IF pk \notin DOMAIN posts
       THEN /\ response' = NotFound
            /\ UNCHANGED posts
       ELSE IF posts[pk].author # user
       THEN /\ response' = Redirect(Url("blog:post_detail", pk, ""))
            /\ UNCHANGED posts
       ELSE IF method = "GET" \/ ~valid
       THEN /\ response' = Rendered(pk, {})
            /\ UNCHANGED posts
       ELSE /\ posts' = Update(posts, pk,
                          [posts[pk] EXCEPT !.is_published = form.is_published,
                                            !.pub_date = form.pub_date,
                                            !.category = form.category])
            /\ response' = Redirect(Url("blog:post_detail", pk, ""))
    /\ UNCHANGED <<users, comments, nextPostPk, nextCommentPk, now>>

\* GET|POST /posts/<pk>/delete/
PostDelete(user, method, pk) ==
    /\ request' = Request("post_delete", method, user, pk, 0, "")
    /\ IF pk \notin DOMAIN posts
       THEN /\ response' = NotFound
            /\ UNCHANGED <<posts, comments>>
       ELSE IF ~OnlyAuthorMixin_test_func(posts[pk].author, user)
       THEN /\ response' = handle_no_permission(user)
            /\ UNCHANGED <<posts, comments>>
       ELSE IF method = "GET"
       THEN /\ response' = Rendered(pk, {})
            /\ UNCHANGED <<posts, comments>>
       ELSE /\ posts' = Delete(posts, {pk})
            /\ comments' = CascadeDelete(pk)
            /\ response' = Redirect(Url("blog:index", 0, ""))
    /\ UNCHANGED <<users, nextPostPk, nextCommentPk, now>>

(***************************************************************************)
(* Comment views.                                                          *)
(***************************************************************************)
\* CommentCreateView.form_valid taking the author from the post
NewComment_PostAuthor(user, pk, text) ==
    [post |-> pk, author |-> posts[pk].author, text |-> text]

\* CommentCreateView.form_valid: the new row
NewComment(user, pk, text) == [post |-> pk, author |-> user, text |-> text]

\* GET|POST /posts/<pk>/comment/
CommentCreate(user, method, pk, valid, text) ==
    /\ request' = Request("add_comment", method, user, pk, 0, "")
    /\ IF ~is_authenticated(user)
       THEN /\ response' = Redirect(LoginUrl)
            /\ UNCHANGED <<comments, nextCommentPk>>
       ELSE IF method = "GET" \/ ~valid
       THEN /\ response' = Rendered(0, {})
            /\ UNCHANGED <<comments, nextCommentPk>>
       ELSE IF pk \notin DOMAIN posts
       THEN /\ response' = NotFound
            /\ UNCHANGED <<comments, nextCommentPk>>
       ELSE /\ nextCommentPk <= MaxComments
            /\ comments' =
                 Insert(comments, nextCommentPk, NewComment(user, pk, text))
            /\ nextCommentPk' = nextCommentPk + 1
            /\ response' = Redirect(Url("blog:post_detail", pk, ""))
    /\ UNCHANGED <<users, posts, nextPostPk, now>>

\* GET|POST /posts/<pk>/edit_comment/<comment_id>/
\* get_object() looks the comment up by comment_id alone (pk_url_kwarg); the
\* <pk> of the URL is read by neither dispatch nor get_success_url.
CommentUpdate(user, method, comment_id, valid, text) ==
    /\ request' = Request("edit_comment", method, user, 0, comment_id, "")
    /\ IF comment_id \notin DOMAIN comments
       THEN /\ response' = NotFound
            /\ UNCHANGED comments
       ELSE IF ~OnlyAuthorMixin_test_func(comments[comment_id].author, user)
       THEN /\ response' = handle_no_permission(user)
            /\ UNCHANGED comments
       ELSE IF method = "GET" \/ ~valid
       THEN /\ response' = Rendered(comment_id, {})
            /\ UNCHANGED comments
       ELSE /\ comments' = Update(comments, comment_id,
                             [comments[comment_id] EXCEPT !.text = text])
            /\ response' = Redirect(Url("blog:post_detail",
                                        comments[comment_id].post, ""))
    /\ UNCHANGED <<users, posts, nextPostPk, nextCommentPk, now>>

\* GET|POST /posts/<pk>/delete_comment/<comment_id>/
CommentDelete(user, method, comment_id) ==
    /\ request' = Request("delete_comment", method, user, 0, comment_id, "")
    /\ IF comment_id \notin DOMAIN comments
       THEN /\ response' = NotFound
            /\ UNCHANGED comments
       ELSE IF ~OnlyAuthorMixin_test_func(comments[comment_id].author, user)
       THEN /\ response' = handle_no_permission(user)
            /\ UNCHANGED comments
       ELSE IF method = "GET"
       THEN /\ response' = Rendered(comment_id, {})
            /\ UNCHANGED comments
       ELSE /\ comments' = Delete(comments, {comment_id})
            /\ response' = Redirect(Url("blog:post_detail",
                                        comments[comment_id].post, ""))
    /\ UNCHANGED <<users, posts, nextPostPk, nextCommentPk, now>>

(***************************************************************************)
(* Profile view.                                                           *)
(***************************************************************************)
ProfileForms ==
    [username : Usernames, first_name : Names, last_name : Names,
     email : Emails]

\* ProfileUpdateView.get_object returning the first user of the table
ProfileUpdateView_get_object_First(user) == CHOOSE u \in Users : TRUE

\* ProfileUpdateView.get_object
ProfileUpdateView_get_object(user) == user

\* ModelForm validation of User.username (unique=True)
UsernameTaken(object, username) ==
    \E u \in Users \ {object} : users[u].username = username

\* GET|POST /profile/edit/ (the URL names no user)
ProfileUpdate(user, method, valid, form) ==
    /\ request' = Request("edit_profile", method, user, 0, 0, "")
    /\ IF ~is_authenticated(user)
       THEN /\ response' = Redirect(LoginUrl)
            /\ UNCHANGED users
       ELSE LET object == ProfileUpdateView_get_object(user)
            IN  IF \/ method = "GET"
                   \/ ~valid
                   \/ UsernameTaken(object, form.username)
                THEN /\ response' = Rendered(object, {})
                     /\ UNCHANGED users
                ELSE /\ users' = Update(users, object, form)
                     /\ response' =
                          Redirect(Url("blog:profile", 0, form.username))
    /\ UNCHANGED <<posts, comments, nextPostPk, nextCommentPk, now>>

(***************************************************************************)
(* timezone.now() moves on between requests.  request and response are the *)
(* request handled at the current time, so the clock's step clears them.   *)
(***************************************************************************)
Tick ==
    /\ now < MaxTime
    /\ now' = now + 1
    /\ request' = NoRequest
    /\ response' = NoResponse
    /\ UNCHANGED <<users, posts, comments, nextPostPk, nextCommentPk>>

(***************************************************************************)
(* Inputs.  A GET carries no form; the data of an invalid form is not      *)
(* read.                                                                   *)
(***************************************************************************)
Submissions(forms) ==
    LET blank == CHOOSE f \in forms : TRUE
    IN  {[method |-> "GET", valid |-> FALSE, form |-> blank],
         [method |-> "POST", valid |-> FALSE, form |-> blank]}
        \cup {[method |-> "POST", valid |-> TRUE, form |-> f] : f \in forms}

\* the post forms that differ in is_published alone
PlainPostForms == {f \in PostForms : f.pub_date = 1 /\ f.category = 1}

(***************************************************************************)
(* Specifications.                                                         *)
(***************************************************************************)
Views ==
    \/ \E user \in Requesters : Index(user)
    \/ \E user \in Requesters, slug \in Slugs : CategoryPosts(user, slug)
    \/ \E user \in Requesters, username \in Usernames : Profile(user, username)
    \/ \E user \in Requesters, pk \in PostArgs : PostDetail(user, pk)

\* The posts of the blog: their life cycle and every view that lists them.
NextPosts ==
    \/ Views
    \/ \E user \in Requesters, s \in Submissions(PostForms) :
            PostCreate(user, s.method, s.valid, s.form)
    \/ \E user \in Requesters, pk \in PostArgs, s \in Submissions(PostForms) :
            PostUpdate(user, s.method, pk, s.valid, s.form)
    \/ \E user \in Requesters, method \in Methods, pk \in PostArgs :
            PostDelete(user, method, pk)
    \/ Tick

\* The comments of the blog, on posts that come and go.
NextComments ==
    \/ \E user \in Requesters, s \in Submissions(PlainPostForms) :
            PostCreate(user, s.method, s.valid, s.form)
    \/ \E user \in Requesters, method \in Methods, pk \in PostArgs :
            PostDelete(user, method, pk)
    \/ \E user \in Requesters, pk \in PostArgs, s \in Submissions(Texts) :
            CommentCreate(user, s.method, pk, s.valid, s.form)
    \/ \E user \in Requesters, comment_id \in CommentArgs,
          s \in Submissions(Texts) :
            CommentUpdate(user, s.method, comment_id, s.valid, s.form)
    \/ \E user \in Requesters, method \in Methods, comment_id \in CommentArgs :
            CommentDelete(user, method, comment_id)

\* The profiles of the users.
NextProfiles ==
    \/ \E user \in Requesters, s \in Submissions(ProfileForms) :
            ProfileUpdate(user, s.method, s.valid, s.form)
    \/ \E user \in Requesters, username \in Usernames : Profile(user, username)

Next == NextPosts \/ NextComments \/ NextProfiles

Spec == Init /\ [][Next]_vars

(***************************************************************************)
(* users is written by ProfileUpdate alone, posts by the post views alone, *)
(* comments by the comment views and PostDelete alone.  The properties are  *)
(* checked on the three parts of the blog, each with all the requests that *)
(* read or write the tables it is about.                                   *)
(***************************************************************************)
SpecPosts == Init /\ [][NextPosts]_vars

SpecComments == Init /\ [][NextComments]_vars

SpecProfiles == Init /\ [][NextProfiles]_vars

(***************************************************************************)
(* Properties.                                                             *)
(***************************************************************************)
\* Section 3 of the specification: a post is publicly visible when it is
\* published, its date is not in the future and its category is published.
PubliclyVisible(p) ==
    /\ posts[p].is_published
    /\ posts[p].pub_date <= now
    /\ Category[posts[p].category].is_published

ListingViews == {"index", "category_posts", "profile"}

\* the listing just answered is the listing of post p's own category
OwnCategoryListing(p) ==
    /\ request.view = "category_posts"
    /\ request.name = Category[posts[p].category].slug

\* the listing just answered is the profile of post p's author
AuthorProfileListing(p) ==
    /\ request.view = "profile"
    /\ request.name = users[posts[p].author].username

\* C1: a post that is unpublished, in an unpublished category or dated in
\* the future is in no index, category or profile listing answered to a
\* requester who is not its author (anonymous included).
C1_HiddenPostsNotListed ==
    request.view \in ListingViews =>
        \A p \in DOMAIN posts :
            (request.user # posts[p].author /\ ~PubliclyVisible(p))
                => p \notin ListedPks(response)

\* A visitor is answered the profile of an author who has a hidden post and
\* a visible one: the page lists the visible one only.
C1_Witness ==
    \E p, q \in DOMAIN posts :
        /\ AuthorProfileListing(p)
        /\ AuthorProfileListing(q)
        /\ request.user # posts[p].author
        /\ ~PubliclyVisible(p)
        /\ response.status = "ok"
        /\ ListedPks(response) = {q}

\* C2 as stated: in the index, in its own category's listing and in its
\* author's profile, a post is listed exactly when it is publicly visible or
\* the requester is its author.
C2_SameFilterEverywhere ==
    \A p \in DOMAIN posts :
        (\/ request.view = "index"
         \/ OwnCategoryListing(p)
         \/ AuthorProfileListing(p))
            => (p \in ListedPks(response)
                    <=> (PubliclyVisible(p) \/ request.user = posts[p].author))

\* C2 as amended: the index and the listing of its own category hold a post
\* exactly when it is publicly visible, whoever asks; the profile of its
\* author holds it exactly when it is publicly visible or the requester is
\* its author.
C2_FilterPerListing ==
    \A p \in DOMAIN posts :
        /\ (request.view = "index" \/ OwnCategoryListing(p))
              => (p \in ListedPks(response) <=> PubliclyVisible(p))
        /\ AuthorProfileListing(p)
              => (p \in ListedPks(response)
                    <=> (PubliclyVisible(p) \/ request.user = posts[p].author))

\* An author is answered the index while a post of theirs is hidden and
\* another post is visible: the index leaves the author's hidden post out.
C2_Witness ==
    \E p, q \in DOMAIN posts :
        /\ request.view = "index"
        /\ request.user = posts[p].author
        /\ ~PubliclyVisible(p)
        /\ response.status = "ok"
        /\ ListedPks(response) = {q}

\* C3: the post detail view answers a requester who is not the author with
\* the post only if the post is publicly visible, and with not-found
\* otherwise; it always answers the author with the post.
C3_DetailOnlyVisible ==
    (request.view = "post_detail" /\ request.pk \in DOMAIN posts) =>
        IF request.user = posts[request.pk].author
        THEN response = Rendered(request.pk, {})
        ELSE /\ response.status = "ok" => PubliclyVisible(request.pk)
             /\ ~PubliclyVisible(request.pk) => response = NotFound

\* C4: an edit or delete request for an existing post by anyone but its
\* author is answered with a redirect to the post's detail page and leaves
\* posts and comments as they were.
C4_NonAuthorRedirected ==
    [][(/\ request'.view \in {"post_edit", "post_delete"}
        /\ request'.pk \in DOMAIN posts
        /\ posts[request'.pk].author # request'.user)
          => (/\ response' = Redirect(Url("blog:post_detail", request'.pk, ""))
              /\ UNCHANGED <<posts, comments>>)]_vars

\* the answers that deny a request: 403, or the redirect to the login page
\* that an anonymous requester gets
Denied == {Forbidden, Redirect(LoginUrl)}

CommentWrites == {"edit_comment", "delete_comment"}

C6_ProfileListing ==
    (request.view = "profile" /\ UserByUsername(request.name) # {}) =>
        LET U == CHOOSE u \in UserByUsername(request.name) : TRUE
            own == {p \in DOMAIN posts : posts[p].author = U}
        IN  /\ response.status = "ok"
            /\ ListedPks(response) =
                 IF request.user = U
                 THEN own
                 ELSE {p \in own : PubliclyVisible(p)}

\* A user is answered their own profile, which lists a hidden post of theirs,
\* while another author has a post too.
C6_Witness ==
    \E p, q \in DOMAIN posts :
        /\ AuthorProfileListing(p)
        /\ request.user = posts[p].author
        /\ ~PubliclyVisible(p)
        /\ posts[q].author # posts[p].author
        /\ PubliclyVisible(q)
        /\ ListedPks(response) = {p}

CommentCreated ==
    /\ request'.view = "add_comment"
    /\ response' = Redirect(Url("blog:post_detail", request'.pk, ""))

\* C7: a successful comment creation by a logged-in requester adds exactly
\* one comment, on the post named in the URL and by the requester, and
\* changes no other comment and no post; a request by an anonymous requester
\* creates no comment.
C7_CommentCreation ==
    [][request'.view = "add_comment" =>
        /\ CommentCreated =>
             /\ is_authenticated(request'.user)
             /\ request'.pk \in DOMAIN posts
             /\ \E c \in DOMAIN comments' \ DOMAIN comments :
                  /\ DOMAIN comments' = DOMAIN comments \cup {c}
                  /\ comments'[c].post = request'.pk
                  /\ comments'[c].author = request'.user
             /\ \A d \in DOMAIN comments : comments'[d] = comments[d]
             /\ posts' = posts
        /\ ~CommentCreated => comments' = comments
        /\ ~is_authenticated(request'.user) => comments' = comments
       ]_vars

\* A second comment was just created, by another user than the first and on
\* a post that is not the requester's.
C7_Witness ==
    /\ request.view = "add_comment"
    /\ response = Redirect(Url("blog:post_detail", request.pk, ""))
    /\ \E c, d \in DOMAIN comments :
         /\ comments[c].author = request.user
         /\ comments[c].post = request.pk
         /\ comments[d].author # request.user
         /\ posts[request.pk].author # request.user

\* the request names a post, category or user that is not in the store
RefersToMissing ==
    \/ /\ request'.view \in {"post_detail", "post_edit", "post_delete",
                             "add_comment"}
       /\ request'.pk \notin DOMAIN posts
    \/ /\ request'.view = "category_posts"
       /\ \A c \in CategoryPks : Category[c].slug # request'.name
    \/ /\ request'.view = "profile"
       /\ UserByUsername(request'.name) = {}

\* C8: every request that names a missing post, category or user is answered
\* not-found and leaves the store as it was, whatever its method and form.
C8_MissingIsNotFound ==
    [][RefersToMissing => (response' = NotFound /\ UNCHANGED store)]_vars

\* C9: a step that changes a User record is a profile update sent by that
\* very user; so an anonymous requester changes none.
C9_ProfileEditableBySelf ==
    [][\A u \in Users :
        users'[u] # users[u]
            => (request'.view = "edit_profile" /\ request'.user = u)]_vars

\* A user has just saved their profile after the other user saved theirs.
C9_Witness ==
    /\ request.view = "edit_profile"
    /\ response.status = "redirect"
    /\ is_authenticated(request.user)
    /\ \A u \in Users : users[u] # InitialUsers[u]

\* C10: a comment is created only on a post that the post detail view would
\* return to the commenter.
C10_CommentOnlyOnVisiblePost ==
    [][(request'.view = "add_comment" /\ comments' # comments)
        => (/\ request'.pk \in DOMAIN posts
            /\ PostDetailView_get_object(request'.user, request'.pk).status
                 = "ok")]_vars

====
